---- MODULE Spec2Model ----
(***************************************************************************)
(* A model of sensAI's basic_models_base.py: InputOutputData, the          *)
(* DataFrameTransformer / VectorModel fit-predict contract, the            *)
(* VectorModelEvaluator train/test split, ChainedVectorRegressionPredictor *)
(* and VectorModelCrossValidator.                                          *)
(*                                                                         *)
(* Python values are modelled as follows.                                  *)
(*   - An optional value (None or v) is the sequence <<>> or <<v>>.        *)
(*   - A pandas DataFrame is [columns, index]: its ordered column names    *)
(*     and its ordered row labels.                                         *)
(*   - A Python float is an IEEE-754 binary64 number man * 2^exp with the  *)
(*     significand kept in three 18-bit limbs (least significant first).   *)
(*   - A call that raises returns a record with ok = FALSE.                *)
(*   - A routine is split into operators at the points where it binds an   *)
(*     intermediate result: the operator for the rest of the routine takes *)
(*     that result as a parameter.                                         *)
(***************************************************************************)
EXTENDS Integers, Sequences, FiniteSets, TLC

VARIABLES
    data,       \* the source InputOutputData
    evaluator,  \* the VectorModelEvaluator, once constructed (optional)
    heap,       \* the model objects; a model is referred to by its position
    chain,      \* the ChainedVectorRegressionPredictor around heap[1] (optional)
    cv,         \* the VectorModelCrossValidator, once constructed (optional)
    lastCall,   \* history: the most recent call, its arguments and its outcome
    lastFit     \* history: the most recent fit of heap[1] (optional)

vars == <<data, evaluator, heap, chain, cv, lastCall, lastFit>>

\* ------------------------------------------------------------------ bounds

\* Largest number of rows of the source dataset.
MaxN == 4

\* Largest number of cross-validation folds.
MaxFolds == 3

\* Largest nChainedPredictions of a chained predictor.
MaxChain == 2

\* The largest number of rows of a frame a classification model is fitted on.
MaxRows == 2

\* ------------------------------------------------------------- Python values

None == <<>>

Some(v) == <<v>>

IsNone(o) == Len(o) = 0

Get(o) == o[1]

Range(s) == {s[i] : i \in 1..Len(s)}

NoDuplicates(s) == \A i, j \in 1..Len(s) : s[i] = s[j] => i = j

\* ------------------------------------------------------------------ floats

LimbBase == 2^18

\* The significand precision of a Python float (IEEE-754 binary64).
Precision == 53

Float(neg, m0, m1, m2, e) ==
    [nan |-> FALSE, neg |-> neg, man |-> <<m0, m1, m2>>, exp |-> e]

F_nan == [nan |-> TRUE, neg |-> FALSE, man |-> <<0, 0, 0>>, exp |-> 0]

\* 0.0
F_0 == Float(FALSE, 0, 0, 0, -53)

\* 0.2 = 0x1.999999999999ap-3
F_0_2 == Float(FALSE, 104858, 157286, 104857, -55)

\* 0.25
F_0_25 == Float(FALSE, 0, 0, 65536, -54)

\* 0.3333333333333333 = 0x1.5555555555555p-2
F_1_3 == Float(FALSE, 87381, 87381, 87381, -54)

\* 0.5
F_0_5 == Float(FALSE, 0, 0, 65536, -53)

\* 0.7 = 0x1.6666666666666p-1
F_0_7 == Float(FALSE, 157286, 104857, 91750, -53)

\* 0.9999999999999999 = 0x1.fffffffffffffp-1, the largest double below 1
F_1_pred == Float(FALSE, 262143, 262143, 131071, -53)

\* 1.0
F_1 == Float(FALSE, 0, 0, 65536, -52)

\* 1.5
F_1_5 == Float(FALSE, 0, 0, 98304, -52)

\* -0.5
F_neg_0_5 == Float(TRUE, 0, 0, 65536, -53)

\* The bits of one limb, least significant first.
LimbToBits(v) == [i \in 1..18 |-> (v \div 2^(i - 1)) % 2]

RECURSIVE LimbsToBits(_)
LimbsToBits(limbs) ==
    IF Len(limbs) = 0 THEN <<>>
    ELSE LimbToBits(Head(limbs)) \o LimbsToBits(Tail(limbs))

\* Number of significant bits (0 for zero).
RECURSIVE BitLength(_)
BitLength(bits) ==
    IF Len(bits) = 0 THEN 0
    ELSE IF bits[Len(bits)] = 1 THEN Len(bits)
    ELSE BitLength(SubSeq(bits, 1, Len(bits) - 1))

RECURSIVE BitsToNat(_)
BitsToNat(bits) ==
    IF Len(bits) = 0 THEN 0 ELSE Head(bits) + 2 * BitsToNat(Tail(bits))

\* bits + 1
RECURSIVE BitsInc(_)
BitsInc(bits) ==
    IF Len(bits) = 0 THEN <<1>>
    ELSE IF Head(bits) = 0 THEN <<1>> \o Tail(bits)
    ELSE <<0>> \o BitsInc(Tail(bits))

\* floor(bits * 2^e) as bits
ShiftBits(bits, e) ==
    IF e >= 0 THEN [i \in 1..e |-> 0] \o bits
    ELSE IF -e >= Len(bits) THEN <<>>
    ELSE SubSeq(bits, 1 - e, Len(bits))

\* The exact product n * man, as bits (n a small natural number).
MulSmallBits(man, n) ==
    LET t0 == n * man[1]
        t1 == n * man[2] + (t0 \div LimbBase)
        t2 == n * man[3] + (t1 \div LimbBase)
    IN  LimbsToBits(<<t0 % LimbBase, t1 % LimbBase, t2 % LimbBase, t2 \div LimbBase>>)

\* Round an exact significand to Precision bits, ties to even:
\* the result is [bits, shift] with value bits * 2^shift.
RoundBits(bits, L, s) ==
    IF s <= 0 THEN [bits |-> SubSeq(bits, 1, L), shift |-> 0]
    ELSE IF bits[s] = 1 /\ ((\E i \in 1..(s - 1) : bits[i] = 1) \/ bits[s + 1] = 1)
    THEN [bits |-> BitsInc(SubSeq(bits, s + 1, L)), shift |-> s]
    ELSE [bits |-> SubSeq(bits, s + 1, L), shift |-> s]

RoundToLength(bits, L) == RoundBits(bits, L, L - Precision)

RoundNearestEven(bits) == RoundToLength(bits, BitLength(bits))

\* Python's  n * f  for an int n >= 0 and a finite float f >= 0: the int is
\* converted to a float (exactly, n being small) and the product is rounded
\* to the nearest double.  The result is [bits, exp]: bits * 2^exp.
Rounded(r, e) == [bits |-> r.bits, exp |-> e + r.shift]

IntTimesFloat(n, f) == Rounded(RoundNearestEven(MulSmallBits(f.man, n)), f.exp)

\* Python's int(x) for a finite x >= 0: truncation.
IntOfFloat(x) == BitsToNat(ShiftBits(x.bits, x.exp))

\* Python's  0 <= f <= 1  (a chained comparison; False for nan).
IsPowerOfTwo(bits) == Cardinality({i \in 1..Len(bits) : bits[i] = 1}) = 1

\* Mutant: the comparison written  0 <= f < 1.
InUnitRangeBitsOpen(f, bits, L) ==
    /\ ~f.nan
    /\ (L = 0 \/ ~f.neg)
    /\ (L = 0 \/ L + f.exp <= 0)

InUnitRangeBits(f, bits, L) ==
    /\ ~f.nan
    /\ (L = 0 \/ ~f.neg)
    /\ \/ L = 0
       \/ L + f.exp <= 0
       \/ L + f.exp = 1 /\ IsPowerOfTwo(bits)

InUnitRangeOf(f, bits) == InUnitRangeBits(f, bits, BitLength(bits))

InUnitRange(f) == InUnitRangeOf(f, LimbsToBits(f.man))

\* ---------------------------------------------------------------- frames

\* A cell value: Python values of different types are different values even
\* when str() gives them the same text (1 and "1").
Value(type, repr) == [type |-> type, repr |-> repr]

\* str(label)
str(v) == v.repr

\* A frame: its ordered column names, its row labels, and the values of its
\* first column, one per row (the only cell values the code reads).
DataFrameOf(columns, index, first) ==
    [columns |-> columns, index |-> index, first |-> first]

\* A frame whose first column is constant.
DataFrame(columns, index) ==
    DataFrameOf(columns, index, [i \in 1..Len(index) |-> Value("int", "0")])

\* df.iloc[indices]: the rows at the given 0-based positions, in that order.
ILoc(df, indices) ==
    DataFrameOf(df.columns,
                [i \in 1..Len(indices) |-> df.index[indices[i] + 1]],
                [i \in 1..Len(indices) |-> df.first[indices[i] + 1]])

\* InputOutputData.__init__: raises ValueError when the lengths differ.
InputOutputData(inputs, outputs) ==
    [ok      |-> Len(inputs.index) = Len(outputs.index),
     inputs  |-> inputs,
     outputs |-> outputs]

\* InputOutputData.__len__
LenData(d) == Len(d.inputs.index)

\* InputOutputData.filterIndices
filterIndices(d, indices) ==
    InputOutputData(ILoc(d.inputs, indices), ILoc(d.outputs, indices))

\* The values np.random.RandomState(seed).permutation(n) can return: the
\* orderings of 0..n-1 (which one depends on the seed).
permutation(n) ==
    {p \in [1..n -> 0..(n - 1)] : \A i, j \in 1..n : p[i] = p[j] => i = j}

\* a[from:to] for 0 <= from, to (Python slice semantics, clamped).
Slice(a, from, to) ==
    IF from >= to \/ from >= Len(a) THEN <<>>
    ELSE SubSeq(a, from + 1, IF to > Len(a) THEN Len(a) ELSE to)

\* ------------------------------------------------------------- evaluator

\* Mutant: the training slice starts one position late.
SplitDataOffByOne(d, permutedIndices, splitIndex) ==
    [ok |-> TRUE, error |-> "",
     trainingData |-> Some(filterIndices(d, Slice(permutedIndices, splitIndex + 1, Len(permutedIndices)))),
     testData     |-> Some(filterIndices(d, Slice(permutedIndices, 0, splitIndex)))]

\* The split of VectorModelEvaluator.__init__ (lines 284 to 287).
SplitData(d, permutedIndices, splitIndex) ==
    [ok |-> TRUE, error |-> "",
     trainingData |-> Some(filterIndices(d, Slice(permutedIndices, splitIndex, Len(permutedIndices)))),
     testData     |-> Some(filterIndices(d, Slice(permutedIndices, 0, splitIndex)))]

Raised(error) ==
    [ok |-> FALSE, error |-> error, trainingData |-> None, testData |-> None]

\* VectorModelEvaluator.__init__ with the permutation the seed yields.
VectorModelEvaluator(d, testFraction, testData, permutedIndices) ==
    IF IsNone(testFraction) /\ IsNone(testData)
    THEN Raised("Either testFraction or testData must be provided")
    ELSE IF ~IsNone(testFraction) /\ ~IsNone(testData)
    THEN Raised("Cannot provide both testFraction and testData")
    ELSE IF ~IsNone(testFraction)
    THEN IF ~InUnitRange(Get(testFraction))
         THEN Raised("invalid testFraction")
         ELSE SplitData(d, permutedIndices,
                        IntOfFloat(IntTimesFloat(LenData(d), Get(testFraction))))
    ELSE [ok |-> TRUE, error |-> "", trainingData |-> Some(d), testData |-> testData]

\* The evaluator object a successful construction leaves.  cls is the concrete
\* class: "regression" (VectorRegressionModelEvaluator) or "classification"
\* (VectorClassificationModelEvaluator).
EvaluatorObject(cls, testFraction, r) ==
    [cls |-> cls, testFraction |-> testFraction,
     trainingData |-> Get(r.trainingData), testData |-> Get(r.testData)]

\* ----------------------------------------------------------- transformers

\* Column names, in sorted order.
ColumnOrder == <<"a", "b", "y">>

SortedColumns(columns) == SelectSeq(ColumnOrder, LAMBDA c : c \in Range(columns))

(***************************************************************************)
(* DataFrameTransformer is abstract.  These implementations stand for it:  *)
(*   Identity     rule-based (fit is RuleBasedDataFrameTransformer.fit),   *)
(*                apply returns the frame as it is;                        *)
(*   SortColumns  rule-based, apply puts the columns in sorted order;      *)
(*   Scaler       fit records the columns, apply keeps the columns and     *)
(*                does not raise when the transformer was never fitted;    *)
(*   SelectFitted fit records the columns, apply selects the recorded      *)
(*                columns and raises when it was never fitted or a         *)
(*                recorded column is missing;                              *)
(*   RejectEmpty  as Scaler, but fit raises on a frame without columns.    *)
(* fitInvoked and applyBeforeFit are history: whether fit was ever         *)
(* invoked on the object, and whether apply was invoked before that.       *)
(***************************************************************************)
TransformerKinds == {"Identity", "SortColumns", "Scaler", "SelectFitted", "RejectEmpty"}

RuleBasedKinds == {"Identity", "SortColumns"}

NewTransformer(kind) ==
    [kind |-> kind, fitInvoked |-> FALSE, columns |-> None, applyBeforeFit |-> FALSE]

\* A transformer the caller has fitted before attaching it.
FittedTransformer(kind, columns) ==
    [kind |-> kind, fitInvoked |-> TRUE, columns |-> Some(columns), applyBeforeFit |-> FALSE]

\* DataFrameTransformer.fit
TransformerFit(t, df) ==
    IF t.kind \in RuleBasedKinds
    THEN [ok |-> TRUE, t |-> [t EXCEPT !.fitInvoked = TRUE]]
    ELSE IF t.kind = "RejectEmpty" /\ Len(df.columns) = 0
    THEN [ok |-> FALSE, t |-> [t EXCEPT !.fitInvoked = TRUE]]
    ELSE [ok |-> TRUE, t |-> [t EXCEPT !.fitInvoked = TRUE, !.columns = Some(df.columns)]]

\* DataFrameTransformer.apply
TransformerApplied(t, ok, df) ==
    [ok |-> ok, t |-> [t EXCEPT !.applyBeforeFit = @ \/ ~t.fitInvoked], df |-> df]

\* The frame with the given selection of its columns: the first column keeps
\* its values when it stays first.
Reordered(df, columns) ==
    IF columns # <<>> /\ df.columns # <<>> /\ columns[1] = df.columns[1]
    THEN DataFrameOf(columns, df.index, df.first)
    ELSE DataFrame(columns, df.index)

TransformerApply(t, df) ==
    CASE t.kind = "SortColumns" ->
           TransformerApplied(t, TRUE, Reordered(df, SortedColumns(df.columns)))
      [] t.kind = "SelectFitted" ->
           IF IsNone(t.columns) \/ ~(Range(Get(t.columns)) \subseteq Range(df.columns))
           THEN TransformerApplied(t, FALSE, df)
           ELSE TransformerApplied(t, TRUE, Reordered(df, Get(t.columns)))
      [] OTHER ->
           TransformerApplied(t, TRUE, df)

\* ------------------------------------------------------------ VectorModel

(***************************************************************************)
(* A VectorModel object.  cls is the concrete base (regression or          *)
(* classification); impl says how the abstract _fit behaves ("strict"      *)
(* raises on training data without rows, as an estimator that cannot be    *)
(* trained on nothing); trainedOn is the state the abstract _fit leaves:   *)
(* the rows it was last trained on.  labels is the _labels attribute of a  *)
(* classification model (a regression model has none and keeps None).      *)
(* fitInvoked, reachedPredict and reachedPredictProba are history, as is    *)
(* labelsSeen: the _labels the last call of _fitClassifier found.           *)
(***************************************************************************)
VectorModel(cls, impl, inputTransformers, outputTransformers, trainingOutputTransformers) ==
    [cls                         |-> cls,
     impl                        |-> impl,
     inputTransformers           |-> inputTransformers,
     outputTransformers          |-> outputTransformers,
     trainingOutputTransformers  |-> trainingOutputTransformers,
     predictedVariableNames      |-> None,
     modelInputVariableNames     |-> None,
     modelOutputVariableNames    |-> None,
     trainedOn                   |-> None,
     labels                      |-> None,
     labelsSeen                  |-> None,
     fitInvoked                  |-> FALSE,
     reachedPredict              |-> FALSE,
     reachedPredictProba         |-> FALSE]

\* VectorModel._applyTransformers, from the i-th transformer on.  An
\* exception leaves the transformers before it fitted.
RECURSIVE applyTransformersFrom(_, _, _, _)

applyTransformersApplied(transformers, fit, i, a) ==
    IF ~a.ok
    THEN [ok |-> FALSE, df |-> a.df, transformers |-> [transformers EXCEPT ![i] = a.t]]
    ELSE applyTransformersFrom(a.df, [transformers EXCEPT ![i] = a.t], fit, i + 1)

applyTransformersFitted(df, transformers, fit, i, f) ==
    IF ~f.ok
    THEN [ok |-> FALSE, df |-> df, transformers |-> [transformers EXCEPT ![i] = f.t]]
    ELSE applyTransformersApplied(transformers, fit, i, TransformerApply(f.t, df))

applyTransformersFrom(df, transformers, fit, i) ==
    IF i > Len(transformers)
    THEN [ok |-> TRUE, df |-> df, transformers |-> transformers]
    ELSE applyTransformersFitted(df, transformers, fit, i,
             IF fit THEN TransformerFit(transformers[i], df)
             ELSE [ok |-> TRUE, t |-> transformers[i]])

applyTransformers(df, transformers, fit) == applyTransformersFrom(df, transformers, fit, 1)

\* VectorModel.getPredictedVariableNames
getPredictedVariableNames(model) == model.predictedVariableNames

\* What VectorModel._checkAndTransformInputs leaves: the transformed frame x,
\* and transformed, the column list the input transformers produced (None
\* when one of them raised).
Checked(ok, error, model, r) ==
    [ok |-> ok, error |-> error,
     model |-> [model EXCEPT !.inputTransformers = r.transformers],
     x |-> r.df, transformed |-> IF r.ok THEN Some(r.df.columns) ELSE None]

\* Mutant: the columns are only checked once input names were recorded, and
\* the check for a trained model is missing.
checkTransformedLax(model, r) ==
    IF ~r.ok
    THEN Checked(FALSE, "transformer", model, r)
    ELSE IF ~IsNone(model.modelInputVariableNames)
            /\ Some(r.df.columns) # model.modelInputVariableNames
    THEN Checked(FALSE, "Inadmissible input data frame", model, r)
    ELSE Checked(TRUE, "", model, r)

\* Mutant: the columns are compared as sets.
checkTransformedUnordered(model, r) ==
    IF ~r.ok
    THEN Checked(FALSE, "transformer", model, r)
    ELSE IF IsNone(getPredictedVariableNames(model))
    THEN Checked(FALSE, "Cannot obtain predictions from non-trained model", model, r)
    ELSE IF IsNone(model.modelInputVariableNames)
            \/ Range(r.df.columns) # Range(Get(model.modelInputVariableNames))
    THEN Checked(FALSE, "Inadmissible input data frame", model, r)
    ELSE Checked(TRUE, "", model, r)

\* The checks of VectorModel._checkAndTransformInputs on the transformed
\* frame r.df.
checkTransformed(model, r) ==
    IF ~r.ok
    THEN Checked(FALSE, "transformer", model, r)
    ELSE IF IsNone(getPredictedVariableNames(model))
    THEN Checked(FALSE, "Cannot obtain predictions from non-trained model", model, r)
    ELSE IF Some(r.df.columns) # model.modelInputVariableNames
    THEN Checked(FALSE, "Inadmissible input data frame", model, r)
    ELSE Checked(TRUE, "", model, r)

\* VectorModel._checkAndTransformInputs
checkAndTransformInputs(model, x) ==
    checkTransformed(model, applyTransformers(x, model.inputTransformers, FALSE))

\* pandas' default index of a new frame with n rows.
RangeIndex(n) == [i \in 1..n |-> i - 1]

\* The abstract VectorModel._predict: an untrained underlying model raises,
\* a trained one returns a frame of its output variables, one row per row of x.
UnderlyingPredict(model, x) ==
    IF IsNone(model.trainedOn)
    THEN [ok |-> FALSE, y |-> x]
    ELSE [ok |-> TRUE,
          y  |-> DataFrame(Get(model.modelOutputVariableNames), RangeIndex(Len(x.index)))]

Predicted(ok, error, model, value, accepted, transformed) ==
    [ok |-> ok, error |-> error, model |-> model, value |-> value,
     accepted |-> accepted, transformed |-> transformed]

\* VectorModel.predict, line 119: the output transformers
predictOutput(c, o) ==
    Predicted(o.ok, IF o.ok THEN "" ELSE "transformer",
              [c.model EXCEPT !.reachedPredict = TRUE, !.outputTransformers = o.transformers],
              IF o.ok THEN Some(o.df) ELSE None, TRUE, c.transformed)

\* VectorModel.predict, lines 118 and 119
predictUnderlying(c, p) ==
    IF ~p.ok
    THEN Predicted(FALSE, "_predict", [c.model EXCEPT !.reachedPredict = TRUE], None,
                   TRUE, c.transformed)
    ELSE predictOutput(c, applyTransformers(DataFrame(p.y.columns, c.x.index),
                                            c.model.outputTransformers, FALSE))

\* VectorModel.predict, lines 117 to 119
predictChecked(c) ==
    IF ~c.ok
    THEN Predicted(FALSE, c.error, c.model, None, FALSE, c.transformed)
    ELSE predictUnderlying(c, UnderlyingPredict(c.model, c.x))

\* VectorModel.predict
predict(model, x) == predictChecked(checkAndTransformInputs(model, x))

\* VectorClassificationModel.predict_proba, line 219 (the abstract
\* _predict_proba behaves as the abstract _predict does).
predictProbaUnderlying(c, p) ==
    Predicted(p.ok, IF p.ok THEN "" ELSE "_predict_proba",
              [c.model EXCEPT !.reachedPredictProba = TRUE],
              IF p.ok THEN Some(p.y) ELSE None, TRUE, c.transformed)

predictProbaChecked(c) ==
    IF ~c.ok
    THEN Predicted(FALSE, c.error, c.model, None, FALSE, c.transformed)
    ELSE predictProbaUnderlying(c, UnderlyingPredict(c.model, c.x))

\* VectorClassificationModel.predict_proba
predict_proba(model, x) == predictProbaChecked(checkAndTransformInputs(model, x))

\* The abstract routine that trains the estimator: VectorModel._fit of a
\* regression model, VectorClassificationModel._fitClassifier.
AbstractFit(model, X, Y) ==
    IF model.impl = "strict" /\ Len(X.index) = 0
    THEN [ok |-> FALSE, error |-> "_fit", model |-> model]
    ELSE [ok |-> TRUE, error |-> "", model |-> [model EXCEPT !.trainedOn = Some(X.index)]]

\* Series.unique(): the distinct values in the order of their first
\* appearance.
RECURSIVE unique(_)

uniqueAppend(seen, v) == IF v \in Range(seen) THEN seen ELSE Append(seen, v)

unique(values) ==
    IF values = <<>> THEN <<>>
    ELSE uniqueAppend(unique(SubSeq(values, 1, Len(values) - 1)), values[Len(values)])

\* [str(label) for label in values]
StrAll(values) == [i \in 1..Len(values) |-> str(values[i])]

\* VectorClassificationModel._fitClassifier (abstract)
fitClassifier(model, X, Y) ==
    AbstractFit([model EXCEPT !.labelsSeen = model.labels], X, Y)

\* VectorClassificationModel._fit: Y.iloc[:, 0] raises IndexError on a frame
\* without columns.
classificationFit(model, X, Y) ==
    IF Len(Y.columns) = 0
    THEN [ok |-> FALSE, error |-> "IndexError", model |-> model]
    ELSE fitClassifier([model EXCEPT !.labels = Some(StrAll(unique(Y.first)))], X, Y)

\* self._fit(X, Y) of the concrete base class
UnderlyingFit(model, X, Y) ==
    IF model.cls = "classification"
    THEN classificationFit(model, X, Y)
    ELSE AbstractFit(model, X, Y)

\* VectorModel.fit, lines 147 to 150
fitTransformed(model, rx, ry) ==
    IF ~ry.ok
    THEN [ok |-> FALSE, error |-> "transformer",
          model |-> [model EXCEPT !.trainingOutputTransformers = ry.transformers]]
    ELSE UnderlyingFit([model EXCEPT !.trainingOutputTransformers = ry.transformers,
                                     !.modelInputVariableNames = Some(rx.df.columns),
                                     !.modelOutputVariableNames = Some(ry.df.columns)],
                       rx.df, ry.df)

\* VectorModel.fit, lines 146 to 150
fitInputs(model, Y, rx) ==
    IF ~rx.ok
    THEN [ok |-> FALSE, error |-> "transformer",
          model |-> [model EXCEPT !.inputTransformers = rx.transformers]]
    ELSE fitTransformed([model EXCEPT !.inputTransformers = rx.transformers], rx,
                        applyTransformers(Y, model.trainingOutputTransformers, TRUE))

\* VectorModel.fit, line 144
fitNames(model, Y) ==
    [model EXCEPT !.fitInvoked = TRUE, !.predictedVariableNames = Some(Y.columns)]

\* VectorModel.fit
fit(model, X, Y) ==
    fitInputs(fitNames(model, Y), Y, applyTransformers(X, model.inputTransformers, TRUE))

\* ------------------------------------------------- evaluator operations

\* Mutant: inputs and outputs passed to fit in the wrong order.
fitModelSwapped(ev, model) == fit(model, ev.trainingData.outputs, ev.trainingData.inputs)

\* VectorModelEvaluator.fitModel
fitModel(ev, model) == fit(model, ev.trainingData.inputs, ev.trainingData.outputs)

Evaluated(ok, error, model, accepted, acceptedProba, stats) ==
    [ok |-> ok, error |-> error, model |-> model,
     accepted |-> accepted, acceptedProba |-> acceptedProba, stats |-> stats]

\* VectorRegressionModelEvaluator.evalModel, lines 310 to 313:
\* predictions[name] and groundTruth[name] raise KeyError for a name that is
\* no column.  stats are the keys of the returned statistics dictionary.
evalRegressionPredicted(ev, p) ==
    IF ~p.ok
    THEN Evaluated(FALSE, p.error, p.model, p.accepted, FALSE, None)
    ELSE IF Range(Get(getPredictedVariableNames(p.model)))
              \subseteq (Range(Get(p.value).columns) \cap Range(ev.testData.outputs.columns))
    THEN Evaluated(TRUE, "", p.model, TRUE, FALSE, getPredictedVariableNames(p.model))
    ELSE Evaluated(FALSE, "KeyError", p.model, TRUE, FALSE, None)

\* VectorRegressionModelEvaluator.evalModel with computeTestDataOutputs
evalModelRegression(ev, model) ==
    evalRegressionPredicted(ev, predict(model, ev.testData.inputs))

\* VectorClassificationModelEvaluator.evalModel, lines 343 and 344
evalClassificationProba(q) ==
    Evaluated(q.ok, q.error, q.model, TRUE, q.accepted,
              IF q.ok THEN Some(<<"evalStats">>) ELSE None)

\* VectorClassificationModelEvaluator.computeTestDataOutputs, line 354.
\* A regression model has no predict_proba: AttributeError.
evalClassificationPredicted(ev, p) ==
    IF ~p.ok
    THEN Evaluated(FALSE, p.error, p.model, p.accepted, FALSE, None)
    ELSE IF p.model.cls # "classification"
    THEN Evaluated(FALSE, "AttributeError", p.model, TRUE, FALSE, None)
    ELSE evalClassificationProba(predict_proba(p.model, ev.testData.inputs))

\* VectorClassificationModelEvaluator.evalModel with computeTestDataOutputs
evalModelClassification(ev, model) ==
    evalClassificationPredicted(ev, predict(model, ev.testData.inputs))

evalModel(ev, model) ==
    IF ev.cls = "classification" THEN evalModelClassification(ev, model)
    ELSE evalModelRegression(ev, model)

\* ---------------------------------------- ChainedVectorRegressionPredictor

\* ChainedVectorRegressionPredictor.__init__
ChainedVectorRegressionPredictor(predictor, nChainedPredictions) ==
    [predictor |-> predictor, nChainedPredictions |-> nChainedPredictions]

Chained(ok, error, model, value, wrappedCalls, firstPrediction) ==
    [ok |-> ok, error |-> error, model |-> model, value |-> value,
     wrappedCalls |-> wrappedCalls, firstPrediction |-> firstPrediction]

\* The while loop of ChainedVectorRegressionPredictor.predict.  wrappedCalls
\* counts the invocations of the wrapped predictor's predict.
RECURSIVE chainLoop(_, _, _, _, _)

chainStep(p, nPredictions, nChainedPredictions, first) ==
    IF ~p.ok
    THEN Chained(FALSE, p.error, p.model, None, nPredictions + 1, first)
    ELSE chainLoop(p.model, Get(p.value), nPredictions + 1, nChainedPredictions, first)

chainLoop(model, predictions, nPredictions, nChainedPredictions, first) ==
    IF nPredictions >= nChainedPredictions
    THEN Chained(TRUE, "", model, Some(predictions), nPredictions, first)
    ELSE chainStep(predict(model, predictions), nPredictions, nChainedPredictions, first)

\* Mutant: the dimensionality check is missing.
chainedFirstUnchecked(c, x, p) ==
    IF ~p.ok
    THEN Chained(FALSE, p.error, p.model, None, 1, None)
    ELSE chainLoop(p.model, Get(p.value), 1, c.nChainedPredictions, p.value)

\* ChainedVectorRegressionPredictor.predict, lines 368 to 375
chainedFirst(c, x, p) ==
    IF ~p.ok
    THEN Chained(FALSE, p.error, p.model, None, 1, None)
    ELSE IF Len(Get(p.value).columns) # Len(x.columns)
    THEN Chained(FALSE, "cannot be used for chained execution", p.model, None, 1, p.value)
    ELSE chainLoop(p.model, Get(p.value), 1, c.nChainedPredictions, p.value)

\* ChainedVectorRegressionPredictor.predict on the wrapped model
chainedPredict(c, model, x) == chainedFirst(c, x, predict(model, x))

\* ------------------------------------------------ VectorModelCrossValidator

\* _createModelEvaluator: the evaluator is built from explicit test data.
createModelEvaluator(cls, trainingData, testData) ==
    EvaluatorObject(cls, None, VectorModelEvaluator(trainingData, None, Some(testData), <<>>))

\* Mutant: the training indices end where the test block starts.
FoldEvaluatorNoTail(cls, d, permutedIndices, testStartIdx, testEndIdx) ==
    createModelEvaluator(cls,
        filterIndices(d, Slice(permutedIndices, 0, testStartIdx)),
        filterIndices(d, Slice(permutedIndices, testStartIdx, testEndIdx)))

\* One pass of the loop of VectorModelCrossValidator.__init__
FoldEvaluator(cls, d, permutedIndices, testStartIdx, testEndIdx) ==
    createModelEvaluator(cls,
        filterIndices(d, Slice(permutedIndices, 0, testStartIdx)
                         \o Slice(permutedIndices, testEndIdx, Len(permutedIndices))),
        filterIndices(d, Slice(permutedIndices, testStartIdx, testEndIdx)))

\* Mutant: every test block starts at position i.
FoldEvaluatorsOverlap(cls, d, folds, permutedIndices, numTestPoints) ==
    [k \in 1..folds |->
        FoldEvaluator(cls, d, permutedIndices, k - 1, k - 1 + numTestPoints)]

FoldEvaluators(cls, d, folds, permutedIndices, numTestPoints) ==
    [k \in 1..folds |->
        FoldEvaluator(cls, d, permutedIndices,
                      (k - 1) * numTestPoints, (k - 1) * numTestPoints + numTestPoints)]

\* VectorModelCrossValidator.__init__ with the permutation the seed yields.
VectorModelCrossValidator(cls, d, folds, permutedIndices) ==
    [cls |-> cls,
     modelEvaluators |-> FoldEvaluators(cls, d, folds, permutedIndices, LenData(d) \div folds)]

\* Mutant: no copy, the model itself is used.
deepcopyAlias(objects, ref) == [objects |-> objects, ref |-> ref]

\* copy.deepcopy(model): a new object with the same state (the transformers,
\* part of that state, are copied with it).
deepcopy(objects, ref) ==
    [objects |-> Append(objects, objects[ref]), ref |-> Len(objects) + 1]

(***************************************************************************)
(* The loop of VectorModelCrossValidator._evalModel from the i-th          *)
(* evaluator on.  objects is the heap of model objects (a model is         *)
(* referred to by its position in it), ref the model passed in; a copy is  *)
(* a new object appended to the heap.  calls lists the fitModel and        *)
(* evalModel invocations in order.                                         *)
(***************************************************************************)
CrossValidated(ok, error, objects, acc) ==
    [ok |-> ok, error |-> error, objects |-> objects,
     trainedModels |-> acc.trainedModels, evalDataList |-> acc.evalDataList,
     testIndicesList |-> acc.testIndicesList, calls |-> acc.calls]

Called(acc, op, i, modelCopy) ==
    [acc EXCEPT !.calls = Append(@, [op |-> op, fold |-> i, model |-> modelCopy])]

Collected(acc, modelCopy, e, ev) ==
    [acc EXCEPT !.trainedModels   = Append(@, modelCopy),
                !.evalDataList    = Append(@, Get(e.stats)),
                !.testIndicesList = Append(@, ev.testData.outputs.index)]

RECURSIVE evalModelFolds(_, _, _, _, _)

\* lines 406 and 407
foldEvaluated(c, objects, ref, i, acc, modelCopy, e) ==
    IF ~e.ok
    THEN CrossValidated(FALSE, e.error, [objects EXCEPT ![modelCopy] = e.model],
                        [acc EXCEPT !.trainedModels = Append(@, modelCopy)])
    ELSE evalModelFolds(c, [objects EXCEPT ![modelCopy] = e.model], ref, i + 1,
                        Collected(acc, modelCopy, e, c.modelEvaluators[i]))

\* lines 405 to 407
foldFitted(c, objects, ref, i, acc, modelCopy, f) ==
    IF ~f.ok
    THEN CrossValidated(FALSE, f.error, [objects EXCEPT ![modelCopy] = f.model], acc)
    ELSE foldEvaluated(c, [objects EXCEPT ![modelCopy] = f.model], ref, i,
                       Called(acc, "evalModel", i, modelCopy), modelCopy,
                       evalModel(c.modelEvaluators[i], f.model))

\* lines 404 to 407
foldCopied(c, ref, i, acc, cp) ==
    foldFitted(c, cp.objects, ref, i, Called(acc, "fitModel", i, cp.ref), cp.ref,
               fitModel(c.modelEvaluators[i], cp.objects[cp.ref]))

evalModelFolds(c, objects, ref, i, acc) ==
    IF i > Len(c.modelEvaluators)
    THEN CrossValidated(TRUE, "", objects, acc)
    ELSE foldCopied(c, ref, i, acc, deepcopy(objects, ref))

\* VectorModelCrossValidator._evalModel
crossValidatorEvalModel(c, objects, ref) ==
    evalModelFolds(c, objects, ref, 1,
        [trainedModels |-> <<>>, evalDataList |-> <<>>, testIndicesList |-> <<>>,
         calls |-> <<>>])

\* ------------------------------------------------------------------ inputs

Classes == {"regression", "classification"}

\* A dataset of n rows with inputs a, b and output y; the row at position p
\* (from 0) has the label base + n - 1 - p.
Dataset(n, base) ==
    InputOutputData(DataFrame(<<"a", "b">>, [i \in 1..n |-> base + n - i]),
                    DataFrame(<<"y">>, [i \in 1..n |-> base + n - i]))

Datasets == {Dataset(n, 0) : n \in 0..MaxN}

NoData == Dataset(0, 0)

TestFractions ==
    {F_nan, F_neg_0_5, F_0, F_0_2, F_1_3, F_0_5, F_0_7, F_1_pred, F_1, F_1_5}

TestDataChoices == {Dataset(2, 10)}

InputPipelines ==
    {<<>>,
     <<NewTransformer("Identity")>>,
     <<NewTransformer("SortColumns")>>,
     <<NewTransformer("SelectFitted")>>,
     <<NewTransformer("Scaler"), NewTransformer("SelectFitted")>>,
     <<NewTransformer("RejectEmpty")>>}

OutputPipelines ==
    {<<NewTransformer("Scaler")>>, <<FittedTransformer("SelectFitted", <<"y">>)>>}

TrainingOutputPipelines ==
    {<<NewTransformer("Scaler")>>, <<NewTransformer("RejectEmpty")>>}

\* VectorRegressionModel.__init__ takes the three pipelines,
\* VectorClassificationModel.__init__ the input transformers only.
VectorRegressionModel(impl, i, o, t) == VectorModel("regression", impl, i, o, t)

VectorClassificationModel(impl, i) == VectorModel("classification", impl, i, <<>>, <<>>)

ModelConfigs ==
    {VectorRegressionModel("lenient", i, <<>>, <<>>) : i \in InputPipelines}
    \cup {VectorRegressionModel("strict", <<>>, o, <<>>) : o \in OutputPipelines}
    \cup {VectorRegressionModel("lenient", <<>>, <<>>, t) : t \in TrainingOutputPipelines}
    \cup {VectorRegressionModel("lenient", <<NewTransformer("SortColumns")>>,
                                <<NewTransformer("Scaler")>>, <<NewTransformer("Scaler")>>)}
    \cup {VectorClassificationModel("strict", i) : i \in InputPipelines}

\* The models the chained predictor wraps.
ChainModelConfigs ==
    {VectorRegressionModel("lenient", <<>>, <<>>, <<>>),
     VectorRegressionModel("strict", <<NewTransformer("SortColumns")>>, <<>>, <<>>),
     VectorRegressionModel("lenient", <<NewTransformer("SelectFitted")>>,
                           <<NewTransformer("Scaler")>>, <<>>)}

\* The models the evaluator and the cross-validator are run with.
EvalModelConfigs ==
    {VectorRegressionModel("lenient", <<>>, <<>>, <<>>),
     VectorRegressionModel("strict", <<NewTransformer("SelectFitted")>>, <<>>, <<>>),
     VectorRegressionModel("lenient", <<NewTransformer("SortColumns")>>,
                           <<NewTransformer("Scaler")>>, <<NewTransformer("Scaler")>>),
     VectorClassificationModel("lenient", <<>>),
     VectorClassificationModel("strict", <<NewTransformer("Scaler"), NewTransformer("SelectFitted")>>)}

\* The frames fit and predict are called with.
XColumnLists == {<<>>, <<"a">>, <<"a", "b">>, <<"b", "a">>}

YColumnLists == {<<"y">>, <<"a", "b">>}

Indexes == {<<>>, <<5, 3>>}

\* The classification models fitted on labelled outputs.
ClassifierConfigs ==
    {VectorClassificationModel("lenient", <<>>),
     VectorClassificationModel("strict", <<>>),
     VectorClassificationModel("strict", <<NewTransformer("SortColumns")>>)}

\* The values a label column holds: strings, and an integer whose string
\* form is that of one of the strings.
LabelValues ==
    {Value("str", "a"), Value("str", "b"), Value("int", "1"), Value("str", "1")}

\* The input columns the classification models are fitted on.
ClassifierXColumnLists == {<<"a">>, <<"a", "b">>}

\* The first columns of n rows.
LabelColumns(n) == [1..n -> LabelValues]

NoCall == [op |-> "none", ok |-> TRUE]

\* ------------------------------------------------- the model's operations

InitModel ==
    /\ data = NoData
    /\ evaluator = None
    /\ cv = None
    /\ chain = None
    /\ heap \in {<<m>> : m \in ModelConfigs}
    /\ lastCall = NoCall
    /\ lastFit = None

Fitted(X, Y, r) ==
    /\ heap' = [heap EXCEPT ![1] = r.model]
    /\ lastCall' = [op |-> "fit", ok |-> r.ok, error |-> r.error, x |-> X, y |-> Y]
    /\ lastFit' = Some([ok |-> r.ok, x |-> X, y |-> Y, by |-> "fit",
                        transformed |-> r.model.modelInputVariableNames])
    /\ UNCHANGED <<data, evaluator, chain, cv>>

\* model.fit(X, Y)
Fit ==
    \E xc \in XColumnLists, yc \in YColumnLists, index \in Indexes :
        Fitted(DataFrame(xc, index), DataFrame(yc, index),
               fit(heap[1], DataFrame(xc, index), DataFrame(yc, index)))

PredictReturned(op, x, r) ==
    /\ heap' = [heap EXCEPT ![1] = r.model]
    /\ lastCall' = [op |-> op, ok |-> r.ok, error |-> r.error, x |-> x,
                    accepted |-> r.accepted, transformed |-> r.transformed,
                    value |-> r.value,
                    fitInvokedBefore |-> heap[1].fitInvoked,
                    reachedBefore |-> heap[1].reachedPredict \/ heap[1].reachedPredictProba]
    /\ UNCHANGED <<data, evaluator, chain, cv, lastFit>>

\* model.predict(x)
Predict ==
    \E xc \in XColumnLists, index \in Indexes :
        PredictReturned("predict", DataFrame(xc, index), predict(heap[1], DataFrame(xc, index)))

\* model.predict_proba(x), which only a classification model has
PredictProba ==
    /\ heap[1].cls = "classification"
    /\ \E xc \in XColumnLists, index \in Indexes :
        PredictReturned("predict_proba", DataFrame(xc, index),
                        predict_proba(heap[1], DataFrame(xc, index)))

NextModel == Fit \/ Predict \/ PredictProba

SpecModel == InitModel /\ [][NextModel]_vars

\* ------------------------------------- the classification model's operations

InitClassifier ==
    /\ data = NoData
    /\ evaluator = None
    /\ cv = None
    /\ chain = None
    /\ heap \in {<<m>> : m \in ClassifierConfigs}
    /\ lastCall = NoCall
    /\ lastFit = None

FitLabelled(X, Y) == Fitted(X, Y, fit(heap[1], X, Y))

\* model.fit(X, Y) with the labels in the first column of Y
FitLabels ==
    \E xc \in ClassifierXColumnLists, yc \in YColumnLists, n \in 0..MaxRows :
        \E first \in LabelColumns(n) :
            FitLabelled(DataFrame(xc, RangeIndex(n)),
                        DataFrameOf(yc, RangeIndex(n), first))

NextClassifier == FitLabels \/ PredictProba

SpecClassifier == InitClassifier /\ [][NextClassifier]_vars

\* ------------------------------------------- the chained predictor's operations

InitChain ==
    /\ data = NoData
    /\ evaluator = None
    /\ cv = None
    /\ heap \in {<<m>> : m \in ChainModelConfigs}
    /\ chain \in {Some(ChainedVectorRegressionPredictor(1, n)) : n \in 1..MaxChain}
    /\ lastCall = NoCall
    /\ lastFit = None

ChainedReturned(x, r) ==
    /\ heap' = [heap EXCEPT ![Get(chain).predictor] = r.model]
    /\ lastCall' = [op |-> "chained.predict", ok |-> r.ok, error |-> r.error, x |-> x,
                    wrappedCalls |-> r.wrappedCalls,
                    firstPrediction |-> r.firstPrediction, value |-> r.value]
    /\ UNCHANGED <<data, evaluator, chain, cv, lastFit>>

\* chained.predict(x)
ChainedPredict ==
    /\ ~IsNone(chain)
    /\ \E xc \in XColumnLists, index \in Indexes :
        ChainedReturned(DataFrame(xc, index),
                        chainedPredict(Get(chain), heap[Get(chain).predictor],
                                       DataFrame(xc, index)))

NextChain == Fit \/ ChainedPredict

SpecChain == InitChain /\ [][NextChain]_vars

\* ------------------------------------------------ the evaluator's operations

InitEvaluator ==
    /\ data \in Datasets
    /\ evaluator = None
    /\ cv = None
    /\ chain = None
    /\ heap \in {<<m>> : m \in EvalModelConfigs}
    /\ lastCall = NoCall
    /\ lastFit = None

Constructed(cls, testFraction, testData, r) ==
    /\ evaluator' = IF r.ok THEN Some(EvaluatorObject(cls, testFraction, r)) ELSE evaluator
    /\ lastCall' = [op |-> "VectorModelEvaluator", ok |-> r.ok, error |-> r.error,
                    testFraction |-> testFraction, testData |-> testData]
    /\ UNCHANGED <<data, heap, chain, cv, lastFit>>

\* VectorRegressionModelEvaluator(data, testFraction=..., testData=...) or
\* VectorClassificationModelEvaluator(data, testFraction=..., testData=...):
\* the construction of the one evaluator of a run (a failed one may be retried).
NewEvaluator ==
    /\ IsNone(evaluator)
    /\ \E cls \in Classes,
       testFraction \in {None} \cup {Some(f) : f \in TestFractions},
       testData \in {None} \cup {Some(d) : d \in TestDataChoices},
       permutedIndices \in permutation(LenData(data)) :
        Constructed(cls, testFraction, testData,
                    VectorModelEvaluator(data, testFraction, testData, permutedIndices))

ModelFitted(r) ==
    /\ heap' = [heap EXCEPT ![1] = r.model]
    /\ lastCall' = [op |-> "fitModel", ok |-> r.ok, error |-> r.error]
    /\ lastFit' = Some([ok |-> r.ok, by |-> "fitModel", evaluator |-> evaluator])
    /\ UNCHANGED <<data, evaluator, chain, cv>>

\* evaluator.fitModel(model)
FitModel ==
    /\ ~IsNone(evaluator)
    /\ ModelFitted(fitModel(Get(evaluator), heap[1]))

ModelEvaluated(r) ==
    /\ heap' = [heap EXCEPT ![1] = r.model]
    /\ lastCall' = [op |-> "evalModel", ok |-> r.ok, error |-> r.error,
                    accepted |-> r.accepted, acceptedProba |-> r.acceptedProba,
                    stats |-> r.stats, fitInvokedBefore |-> heap[1].fitInvoked]
    /\ UNCHANGED <<data, evaluator, chain, cv, lastFit>>

\* evaluator.evalModel(model)
EvalModel ==
    /\ ~IsNone(evaluator)
    /\ ModelEvaluated(evalModel(Get(evaluator), heap[1]))

NextEvaluator == NewEvaluator \/ FitModel \/ EvalModel

SpecEvaluator == InitEvaluator /\ [][NextEvaluator]_vars

\* ----------------------------------------- the cross-validator's operations

InitCV ==
    /\ data \in Datasets
    /\ evaluator = None
    /\ cv = None
    /\ chain = None
    /\ heap \in {<<m>> : m \in EvalModelConfigs}
    /\ lastCall = NoCall
    /\ lastFit = None

\* VectorRegressionModelCrossValidator(data, folds) or
\* VectorClassificationModelCrossValidator(data, folds): the construction of
\* the one cross-validator of a run.
NewCrossValidator ==
    /\ IsNone(cv)
    /\ \E cls \in Classes, folds \in 1..MaxFolds,
       permutedIndices \in permutation(LenData(data)) :
        /\ cv' = Some(VectorModelCrossValidator(cls, data, folds, permutedIndices))
        /\ lastCall' = [op |-> "VectorModelCrossValidator", ok |-> TRUE, folds |-> folds]
        /\ UNCHANGED <<data, evaluator, heap, chain, lastFit>>

\* model.fit(data.inputs, data.outputs): the caller fits the model itself
FitOriginal == Fitted(data.inputs, data.outputs, fit(heap[1], data.inputs, data.outputs))

\* The result object of evalModel: the regression variant reads the predicted
\* variable names of the first trained model (line 438) and keeps the test
\* indices, the classification variant keeps neither.  The models of an
\* earlier result are no longer referred to; those of this one follow the
\* model passed in on the heap.
CrossValidationReturned(r) ==
    /\ heap' = IF r.ok THEN r.objects ELSE <<r.objects[1]>>
    /\ lastCall' = [op |-> "cv.evalModel", ok |-> r.ok, error |-> r.error,
                    trainedModels |-> r.trainedModels, evalDataList |-> r.evalDataList,
                    testIndicesList |-> IF Get(cv).cls = "regression"
                                        THEN Some(r.testIndicesList) ELSE None,
                    predictedVarNames |-> IF r.ok /\ Get(cv).cls = "regression"
                                          THEN r.objects[r.trainedModels[1]].predictedVariableNames
                                          ELSE None,
                    calls |-> r.calls, before |-> heap[1]]
    /\ UNCHANGED <<data, evaluator, chain, cv, lastFit>>

\* crossValidator.evalModel(model)
CrossValidate ==
    /\ ~IsNone(cv)
    /\ CrossValidationReturned(crossValidatorEvalModel(Get(cv), <<heap[1]>>, 1))

NextCV == NewCrossValidator \/ FitOriginal \/ CrossValidate

SpecCV == InitCV /\ [][NextCV]_vars

\* ================================================================ claims

\* The row labels of the source dataset.
AllRows == Range(data.inputs.index)

\* floor(n * f) for the real number the float f is.
ExactFloor(n, f) == BitsToNat(ShiftBits(MulSmallBits(f.man, n), f.exp))

\* Whether the real product n * f is a double (needs no rounding).
ExactProduct(n, f) == BitLength(MulSmallBits(f.man, n)) <= Precision

\* The evaluator was constructed from a testFraction.
SplitByFraction == ~IsNone(evaluator) /\ ~IsNone(Get(evaluator).testFraction)

TrainRows == Get(evaluator).trainingData.inputs.index

TestRows == Get(evaluator).testData.inputs.index

\* Training and test rows are disjoint and cover the source rows exactly once,
\* in the inputs and in the outputs alike.
IsPartition ==
    /\ Get(evaluator).trainingData.outputs.index = TrainRows
    /\ Get(evaluator).testData.outputs.index = TestRows
    /\ NoDuplicates(TrainRows) /\ NoDuplicates(TestRows)
    /\ Range(TrainRows) \cap Range(TestRows) = {}
    /\ Range(TrainRows) \cup Range(TestRows) = AllRows
    /\ Len(TrainRows) + Len(TestRows) = LenData(data)

FractionsInUnitInterval == {F_0, F_0_2, F_1_3, F_0_5, F_0_7, F_1_pred, F_1}

\* C2: constructing an evaluator fails when both testFraction and testData are
\* given, when neither is, and when testFraction is outside [0, 1]; otherwise
\* it succeeds, and with testData given data is the training data and testData
\* the test data, both unchanged.
C2_Construction ==
    lastCall.op = "VectorModelEvaluator" =>
        /\ lastCall.ok <=>
              /\ IsNone(lastCall.testFraction) # IsNone(lastCall.testData)
              /\ ~IsNone(lastCall.testFraction)
                    => Get(lastCall.testFraction) \in FractionsInUnitInterval
        /\ lastCall.ok <=> ~IsNone(evaluator)
        /\ lastCall.ok /\ ~IsNone(lastCall.testData) =>
              /\ Get(evaluator).trainingData = data
              /\ Get(evaluator).testData = Get(lastCall.testData)

\* A construction with testFraction 1.5 has failed and left no evaluator.
C2_Witness ==
    /\ lastCall.op = "VectorModelEvaluator"
    /\ ~lastCall.ok
    /\ lastCall.testFraction = Some(F_1_5)
    /\ IsNone(lastCall.testData)
    /\ IsNone(evaluator)

Folds == Get(cv).modelEvaluators

FoldTestRows(i) == Folds[i].testData.inputs.index

FoldTrainRows(i) == Folds[i].trainingData.inputs.index

\* The rows at positions from+1 .. to of a permutation of the row positions.
BlockRows(p, from, to) == [j \in 1..(to - from) |-> data.inputs.index[p[from + j] + 1]]

\* C3: the K test sets of a cross-validator over N rows are pairwise disjoint,
\* each has floor(N / K) rows, and they are the K leading contiguous blocks of
\* one permutation of the rows.
C3_TestBlocks ==
    ~IsNone(cv) =>
        /\ \A i \in 1..Len(Folds) :
              /\ Len(FoldTestRows(i)) = LenData(data) \div Len(Folds)
              /\ NoDuplicates(FoldTestRows(i))
              /\ Folds[i].testData.outputs.index = FoldTestRows(i)
        /\ \A i, j \in 1..Len(Folds) :
              i # j => Range(FoldTestRows(i)) \cap Range(FoldTestRows(j)) = {}
        /\ \E p \in permutation(LenData(data)) :
              \A i \in 1..Len(Folds) :
                  FoldTestRows(i) =
                      BlockRows(p, (i - 1) * (LenData(data) \div Len(Folds)),
                                   i * (LenData(data) \div Len(Folds)))
        /\ lastCall.op = "VectorModelCrossValidator" => Len(Folds) = lastCall.folds

\* Four rows in two folds: two disjoint test blocks of two rows.
C3_Witness ==
    /\ ~IsNone(cv)
    /\ LenData(data) = 4
    /\ Len(Folds) = 2
    /\ Len(FoldTestRows(1)) = 2
    /\ Len(FoldTestRows(2)) = 2

\* The rows that are in no fold's test set.
RemainderRows == AllRows \ UNION {Range(FoldTestRows(i)) : i \in 1..Len(Folds)}

\* C4: the training set of fold i is exactly the rows not in fold i's test
\* block, N - floor(N / K) of them; the N mod K remainder rows are in no test
\* set and in every training set.
C4_TrainingSets ==
    ~IsNone(cv) =>
        /\ \A i \in 1..Len(Folds) :
              /\ Range(FoldTrainRows(i)) = AllRows \ Range(FoldTestRows(i))
              /\ NoDuplicates(FoldTrainRows(i))
              /\ Folds[i].trainingData.outputs.index = FoldTrainRows(i)
              /\ Len(FoldTrainRows(i)) = LenData(data) - (LenData(data) \div Len(Folds))
              /\ RemainderRows \subseteq Range(FoldTrainRows(i))
        /\ Cardinality(RemainderRows) = LenData(data) % Len(Folds)

\* Four rows in three folds: one remainder row, in all three training sets.
C4_Witness ==
    /\ ~IsNone(cv)
    /\ LenData(data) = 4
    /\ Len(Folds) = 3
    /\ Cardinality(RemainderRows) = 1
    /\ \A i \in 1..3 : Len(FoldTrainRows(i)) = 3

\* C5: on a model on which fit was never called, predict and predict_proba
\* fail and never reach the abstract _predict or _predict_proba.
C5_PredictBeforeFit ==
    /\ ~heap[1].fitInvoked => ~heap[1].reachedPredict /\ ~heap[1].reachedPredictProba
    /\ lastCall.op \in {"predict", "predict_proba"} /\ ~lastCall.fitInvokedBefore =>
          /\ ~lastCall.ok
          /\ ~lastCall.accepted
          /\ IsNone(lastCall.value)

\* predict_proba on a never fitted model with input transformers has failed.
C5_Witness ==
    /\ lastCall.op = "predict_proba"
    /\ ~lastCall.fitInvokedBefore
    /\ ~lastCall.ok
    /\ Len(heap[1].inputTransformers) > 0
    /\ ~heap[1].reachedPredictProba

\* The most recent fit of the model returned normally.
FittedOk == ~IsNone(lastFit) /\ Get(lastFit).ok /\ Get(lastFit).by = "fit"

\* The input transformers that leave the column list as it is.
ColumnPreservingKinds == {"Identity", "Scaler", "RejectEmpty"}

ColumnPreserving(transformers) ==
    \A i \in 1..Len(transformers) : transformers[i].kind \in ColumnPreservingKinds

\* C6 as stated: after fit(X, Y), with any input transformers, predict(X')
\* passes the input check exactly when X' has the ordered column list of X
\* (the X of the most recent fit).
C6_Original ==
    lastCall.op = "predict" /\ FittedOk =>
        (lastCall.accepted <=> lastCall.x.columns = Get(lastFit).x.columns)

\* C6 amended: after fit(X, Y), predict(X') passes the input check exactly
\* when the column list of X' after the input transformers equals the column
\* list of X after the input transformers, as the most recent fit recorded it;
\* with no input transformers, or with transformers that leave the column list
\* as it is, that is exactly when X' has the ordered column list of X.
C6_Columns ==
    lastCall.op = "predict" /\ FittedOk =>
        /\ lastCall.accepted <=>
              /\ ~IsNone(lastCall.transformed)
              /\ lastCall.transformed = Get(lastFit).transformed
        /\ ColumnPreserving(heap[1].inputTransformers) =>
              (lastCall.accepted <=> lastCall.x.columns = Get(lastFit).x.columns)

\* A predict with the columns in another order than at fit was accepted: the
\* input transformer had sorted them.
C6_Witness ==
    /\ lastCall.op = "predict"
    /\ FittedOk
    /\ lastCall.accepted
    /\ Get(lastFit).x.columns = <<"a", "b">>
    /\ lastCall.x.columns = <<"b", "a">>

\* The wrapped predictor was fitted to map k input columns to another number
\* of output columns.
DimensionMismatch ==
    FittedOk /\ Len(Get(lastFit).x.columns) # Len(Get(lastFit).y.columns)

ColumnCountPreserving(transformers) ==
    \A i \in 1..Len(transformers) :
        transformers[i].kind \in ColumnPreservingKinds \cup {"SortColumns"}

\* The chained predict failed after one invocation of the wrapped predictor's
\* predict and before any chained one.
FailedAfterFirst ==
    ~lastCall.ok /\ lastCall.wrappedCalls = 1 /\ IsNone(lastCall.value)

RECURSIVE FoldCalls(_, _)
FoldCalls(models, k) ==
    IF k = 0 THEN <<>>
    ELSE FoldCalls(models, k - 1)
         \o <<[op |-> "fitModel", fold |-> k, model |-> models[k]],
              [op |-> "evalModel", fold |-> k, model |-> models[k]]>>

\* C8: CrossValidator.evalModel leaves the model passed in unchanged and, when
\* it returns, has processed the folds in order, each with a copy of its own:
\* K trained models and K evaluation results, the trained models K distinct
\* objects none of which is the model passed in, trained model i fitted on
\* fold i's training data and on nothing else.
C8_EvalModel ==
    lastCall.op = "cv.evalModel" =>
        /\ heap[1] = lastCall.before
        /\ lastCall.ok =>
              /\ Len(lastCall.trainedModels) = Len(Folds)
              /\ Len(lastCall.evalDataList) = Len(Folds)
              /\ NoDuplicates(lastCall.trainedModels)
              /\ 1 \notin Range(lastCall.trainedModels)
              /\ Range(lastCall.trainedModels) \subseteq DOMAIN heap
              /\ \A i \in 1..Len(Folds) :
                    /\ heap[lastCall.trainedModels[i]].trainedOn = Some(FoldTrainRows(i))
                    /\ heap[lastCall.trainedModels[i]].fitInvoked
                    /\ ~IsNone(lastCall.testIndicesList) =>
                          Get(lastCall.testIndicesList)[i] = FoldTestRows(i)
              /\ lastCall.calls = FoldCalls(lastCall.trainedModels, Len(Folds))

\* A three-fold cross-validation over four rows has returned for a model that
\* was not fitted before and is not fitted after.
C8_Witness ==
    /\ lastCall.op = "cv.evalModel"
    /\ lastCall.ok
    /\ Len(Folds) = 3
    /\ LenData(data) = 4
    /\ ~heap[1].fitInvoked
    /\ Len(lastCall.trainedModels) = 3

\* The model was last fitted by fitModel of the present evaluator, normally.
FittedByEvaluator ==
    /\ ~IsNone(lastFit)
    /\ Get(lastFit).ok
    /\ Get(lastFit).by = "fitModel"
    /\ Get(lastFit).evaluator = evaluator

\* C9: with an evaluator built from a testFraction, evalModel after fitModel of
\* the same model passes the model's trained and column checks (in predict,
\* and in predict_proba for a classification evaluator and model) and returns
\* a result; evalModel of a model that was never fitted fails.
C9_FitThenEval ==
    lastCall.op = "evalModel" =>
        /\ SplitByFraction /\ FittedByEvaluator =>
              /\ lastCall.accepted
              /\ Get(evaluator).cls = "regression" => lastCall.ok /\ ~IsNone(lastCall.stats)
              /\ Get(evaluator).cls = "classification" /\ heap[1].cls = "classification" =>
                    lastCall.acceptedProba /\ lastCall.ok /\ ~IsNone(lastCall.stats)
        /\ ~lastCall.fitInvokedBefore =>
              ~lastCall.ok /\ ~lastCall.accepted /\ ~lastCall.acceptedProba

\* A classification model fitted on two of four rows was evaluated on the
\* other two: predict and predict_proba passed their checks.
C9_Witness ==
    /\ lastCall.op = "evalModel"
    /\ SplitByFraction
    /\ FittedByEvaluator
    /\ Get(evaluator).testFraction = Some(F_0_5)
    /\ LenData(data) = 4
    /\ Get(evaluator).cls = "classification"
    /\ lastCall.ok
    /\ lastCall.acceptedProba
    /\ Len(heap[1].inputTransformers) > 0

\* The transformers attached to the model whose fit is no no-op.
StatefulTransformers ==
    {t \in Range(heap[1].inputTransformers) \cup Range(heap[1].outputTransformers)
           \cup Range(heap[1].trainingOutputTransformers) : t.kind \notin RuleBasedKinds}

\* C10 as stated: in every sequence of fit, predict and predict_proba calls on
\* a model, no attached transformer has its apply invoked before its own fit
\* has been invoked at least once.
C10_Original == \A t \in StatefulTransformers : ~t.applyBeforeFit

\* The string forms of labels, in ascending order.
LabelOrder == <<"0", "1", "a", "b">>

\* The sorted set of the unique string forms of the given values.
SortedUniqueStrs(values) ==
    SelectSeq(LabelOrder, LAMBDA t : \E i \in 1..Len(values) : str(values[i]) = t)

\* The most recent call was a fit of a classification model that got as far
\* as VectorClassificationModel._fit with outputs of at least one column.
ClassificationFitReached ==
    /\ lastCall.op = "fit"
    /\ heap[1].cls = "classification"
    /\ lastCall.error \in {"", "_fit"}

\* C11 as stated: fitting a classification model on outputs Y records as its
\* labels the sorted set of the unique string forms of the values in Y's first
\* column (ascending, without duplicates, also when distinct values have the
\* same string form), and records it before the classifier-specific fit
\* routine is invoked.
C11_Original ==
    ClassificationFitReached =>
        /\ heap[1].labels = Some(SortedUniqueStrs(lastCall.y.first))
        /\ heap[1].labelsSeen = heap[1].labels

\* The fitted state of the model: its predicted-variable names, model input
\* column names and model output column names.
FittedState(model) ==
    <<model.predictedVariableNames, model.modelInputVariableNames,
      model.modelOutputVariableNames>>

\* No fit of the model has returned normally: the abstract fit routine, the
\* last step of fit, has never trained the estimator.
OnlyFailedFits == IsNone(heap[1].trainedOn)

\* C12 as stated: a fit call that raises (in an input transformer, a
\* training-output transformer or the abstract _fit) leaves the model's
\* predicted-variable names, input column names and output column names as
\* they were before the call; so a model whose only fit calls have failed
\* reports getPredictedVariableNames() as None and its predict never reaches
\* the underlying _predict.
C12_Original ==
    /\ [][lastCall'.op = "fit" /\ ~lastCall'.ok =>
             FittedState(heap'[1]) = FittedState(heap[1])]_vars
    /\ [](OnlyFailedFits =>
             /\ IsNone(getPredictedVariableNames(heap[1]))
             /\ ~heap[1].reachedPredict)

====
